---- MODULE Spec2Model ----
(***************************************************************************)
(* A model of ddtemplate.py: Lexer (find_all_tags, tokenize), Parser       *)
(* (parse, IfNode.process_children), Context and the render methods of     *)
(* the node classes, with Template.render's post-processing.               *)
(*                                                                         *)
(* A Python str is a sequence of one-character strings.  Indices into a    *)
(* str are Python's (0-based); Slice(s, a, b) is s[a:b].                   *)
(***************************************************************************)
EXTENDS Integers, Sequences, FiniteSets, TLC

(***************************************************************************)
(* Python str helpers                                                      *)
(***************************************************************************)
Whitespace == {" ", "\n"}

Min(a, b) == IF a < b THEN a ELSE b

\* s[a:b] for 0 <= a, 0 <= b (out-of-range bounds are clamped, a >= b is "")
Slice(s, a, b) == SubSeq(s, Min(a, Len(s)) + 1, Min(b, Len(s)))

\* s[a:]
SliceFrom(s, a) == Slice(s, a, Len(s))

RECURSIVE lstrip(_)
lstrip(s) ==
    IF s # <<>> /\ Head(s) \in Whitespace THEN lstrip(Tail(s)) ELSE s

RECURSIVE rstrip(_)
rstrip(s) ==
    IF s # <<>> /\ s[Len(s)] \in Whitespace
    THEN rstrip(SubSeq(s, 1, Len(s) - 1))
    ELSE s

strip(s) == lstrip(rstrip(s))

\* s.find(sub, cursor) for a two-character sub: lowest index or -1
RECURSIVE find(_, _, _)
find(s, sub, cursor) ==
    IF cursor + 2 > Len(s) THEN -1
    ELSE IF s[cursor + 1] = sub[1] /\ s[cursor + 2] = sub[2] THEN cursor
    ELSE find(s, sub, cursor + 1)

\* "".join(parts) for a list of str
RECURSIVE join(_)
join(parts) ==
    IF parts = <<>> THEN <<>> ELSE Head(parts) \o join(Tail(parts))

\* the first word of s.split(): s is already stripped where this is used
RECURSIVE FirstWord(_)
FirstWord(s) ==
    IF s = <<>> \/ Head(s) \in Whitespace THEN <<>>
    ELSE <<Head(s)>> \o FirstWord(Tail(s))

\* s.replace("\n\n", "\n"): left to right, non-overlapping
RECURSIVE replace_nlnl(_)
replace_nlnl(s) ==
    IF Len(s) < 2 THEN s
    ELSE IF s[1] = "\n" /\ s[2] = "\n"
         THEN <<"\n">> \o replace_nlnl(SubSeq(s, 3, Len(s)))
         ELSE <<s[1]>> \o replace_nlnl(Tail(s))

(***************************************************************************)
(* Lexer                                                                   *)
(***************************************************************************)
all_tags == << <<"{", "#">>, <<"#", "}">>, <<"{", "%">>,
               <<"%", "}">>, <<"{", "{">>, <<"}", "}">> >>

OpeningTags == { <<"{", "#">>, <<"{", "%">>, <<"{", "{">> }

tag_pairs(tag) ==
    CASE tag = <<"{", "#">> -> <<"#", "}">>
      [] tag = <<"{", "%">> -> <<"%", "}">>
      [] tag = <<"{", "{">> -> <<"}", "}">>

tag_types(tag) ==
    CASE tag \in {<<"{", "#">>, <<"#", "}">>} -> "comment"
      [] tag \in {<<"{", "%">>, <<"%", "}">>} -> "instruction"
      [] tag \in {<<"{", "{">>, <<"}", "}">>} -> "print"

\* the dict appended for one occurrence of tag at index
TagRecord(tag, index) ==
    [index |-> index, tag |-> tag, type |-> tag_types(tag),
     opening |-> tag \in OpeningTags,
     expecting |-> IF tag \in OpeningTags THEN tag_pairs(tag) ELSE <<>>]

\* the while loop of find_all_tags for one tag, from self.cursor
RECURSIVE FindTag(_, _, _)
FindTag(s, tag, cursor) ==
    LET index == find(s, tag, cursor)
    IN  IF index # -1
        THEN <<TagRecord(tag, index)>> \o FindTag(s, tag, index + 2)
        ELSE <<>>

\* the for loop over all_tags: every tag, in the order of all_tags
RECURSIVE FindTags(_, _)
FindTags(s, k) ==
    IF k > Len(all_tags) THEN <<>>
    ELSE FindTag(s, all_tags[k], 0) \o FindTags(s, k + 1)

\* tags.sort(key=index): a stable insertion sort
RECURSIVE Insert(_, _)
Insert(sorted, t) ==
    IF sorted = <<>> THEN <<t>>
    ELSE IF sorted[Len(sorted)].index <= t.index THEN Append(sorted, t)
    ELSE Append(Insert(SubSeq(sorted, 1, Len(sorted) - 1), t),
                sorted[Len(sorted)])

RECURSIVE SortTags(_, _)
SortTags(sorted, rest) ==
    IF rest = <<>> THEN sorted
    ELSE SortTags(Insert(sorted, Head(rest)), Tail(rest))

SortedTags(s) == SortTags(<<>>, FindTags(s, 1))

\* the validation loop below without its test of an opening tag that is the
\* last tag
RECURSIVE CheckTagsDropsLastCheck(_, _, _)
CheckTagsDropsLastCheck(tags, i, open_close) ==
    IF i > Len(tags) THEN "ok"
    ELSE IF tags[i].opening
    THEN IF Len(open_close) > 0 THEN "ConsecutiveOpeningTag"
         ELSE CheckTagsDropsLastCheck(tags, i + 1, Append(open_close, tags[i]))
    ELSE IF Len(open_close) = 0 THEN "UnmatchedClosingTag"
         ELSE IF open_close[Len(open_close)].expecting # tags[i].tag
              THEN "MismatchedClosingTag"
              ELSE CheckTagsDropsLastCheck(tags, i + 1,
                       SubSeq(open_close, 1, Len(open_close) - 1))

\* the validation loop of find_all_tags over the sorted tags, from the i-th
\* (1-based) with self.open_close as given: "ok" or the error raised
RECURSIVE CheckTags(_, _, _)
CheckTags(tags, i, open_close) ==
    IF i > Len(tags) THEN "ok"
    ELSE IF tags[i].opening
    THEN IF Len(open_close) > 0 THEN "ConsecutiveOpeningTag"
         ELSE IF i = Len(tags) THEN "UnterminatedOpeningTag"
         ELSE CheckTags(tags, i + 1, Append(open_close, tags[i]))
    ELSE IF Len(open_close) = 0 THEN "UnmatchedClosingTag"
         ELSE IF open_close[Len(open_close)].expecting # tags[i].tag
              THEN "MismatchedClosingTag"
              ELSE CheckTags(tags, i + 1,
                             SubSeq(open_close, 1, Len(open_close) - 1))

\* find_all_tags: the sorted tags and the outcome of the validation
find_all_tags(s) ==
    LET tags == SortedTags(s)
    IN  [tags |-> tags, err |-> CheckTags(tags, 1, <<>>)]

Token(type, text) == [type |-> type, text |-> text]

\* the loop below without its test of the comment type at a closing tag
RECURSIVE TokenizeLoopKeepsComments(_, _, _, _)
TokenizeLoopKeepsComments(s, tags, i, st) ==
    IF i > Len(tags) THEN st.tokens
    ELSE
    LET tag == tags[i]
    IN  IF i = 1 /\ tag.index > 0
        THEN TokenizeLoopKeepsComments(s, tags, i + 1,
                 [start |-> tag.index, end |-> st.end,
                  tokens |-> Append(st.tokens,
                                    Token("text", Slice(s, 0, tag.index)))])
        ELSE
        LET start == IF tag.opening THEN tag.index ELSE st.start
            end == IF tag.opening THEN st.end ELSE tag.index + 2
            between == rstrip(Slice(s, st.end, tag.index))
            inner == strip(Slice(s, st.start + 2, tag.index))
            toks1 ==
                IF tag.opening
                THEN IF st.end # tag.index /\ between # <<>>
                     THEN Append(st.tokens, Token("text", between))
                     ELSE st.tokens
                ELSE Append(st.tokens, Token(tag.type, inner))
            toks2 ==
                IF i = Len(tags) /\ tag.index + 2 < Len(s)
                THEN Append(toks1, Token("text", SliceFrom(s, tag.index + 2)))
                ELSE toks1
        IN  TokenizeLoopKeepsComments(s, tags, i + 1,
                         [start |-> start, end |-> end, tokens |-> toks2])

\* the body of tokenize's for loop for the i-th tag (1-based), as a loop
\* over the rest: st is [start, end, tokens]
RECURSIVE TokenizeLoop(_, _, _, _)
TokenizeLoop(s, tags, i, st) ==
    IF i > Len(tags) THEN st.tokens
    ELSE
    LET tag == tags[i]
    IN  IF i = 1 /\ tag.index > 0
        THEN \* first tag with text before it: continue
             TokenizeLoop(s, tags, i + 1,
                 [start |-> tag.index, end |-> st.end,
                  tokens |-> Append(st.tokens,
                                    Token("text", Slice(s, 0, tag.index)))])
        ELSE
        LET start == IF tag.opening THEN tag.index ELSE st.start
            end == IF tag.opening THEN st.end ELSE tag.index + 2
            between == rstrip(Slice(s, st.end, tag.index))
            inner == strip(Slice(s, st.start + 2, tag.index))
            toks1 ==
                IF tag.opening
                THEN IF st.end # tag.index /\ between # <<>>
                     THEN Append(st.tokens, Token("text", between))
                     ELSE st.tokens
                ELSE IF tag.type # "comment"
                     THEN Append(st.tokens, Token(tag.type, inner))
                     ELSE st.tokens
            toks2 ==
                IF i = Len(tags) /\ tag.index + 2 < Len(s)
                THEN Append(toks1, Token("text", SliceFrom(s, tag.index + 2)))
                ELSE toks1
        IN  TokenizeLoop(s, tags, i + 1,
                         [start |-> start, end |-> end, tokens |-> toks2])

\* Lexer.tokenize after find_all_tags has returned tags
tokenize(s, tags) ==
    TokenizeLoop(s, tags, 1, [start |-> 0, end |-> 0, tokens |-> <<>>])

(***************************************************************************)
(* Token and the node classes                                              *)
(***************************************************************************)
kw_if == <<"i", "f">>

kw_elif == <<"e", "l", "i", "f">>

kw_else == <<"e", "l", "s", "e">>

kw_for == <<"f", "o", "r">>

kw_in == <<"i", "n">>

kw_endif == <<"e", "n", "d", "i", "f">>

kw_endfor == <<"e", "n", "d", "f", "o", "r">>

startwords == {kw_if, kw_for}

midwords == {kw_elif, kw_else}

endwords == {kw_endif, kw_endfor}

\* Token.keyword is self.text.split()[0]: it raises IndexError when the text
\* holds no word
HasKeyword(token) == strip(token.text) # <<>>

keyword(token) == FirstWord(lstrip(token.text))

\* Token.endword, for a token whose keyword is a startword
endword(token) == IF keyword(token) = kw_if THEN kw_endif ELSE kw_endfor

NoToken == [type |-> "none", text |-> <<>>]

\* Node(): the root, and the branches of an IfNode
Node == [cls |-> "Node", token |-> NoToken, children |-> <<>>]

TextNode(token) == [cls |-> "TextNode", token |-> token, children |-> <<>>]

PrintNode(token) == [cls |-> "PrintNode", token |-> token, children |-> <<>>]

ElseNode(token) == [cls |-> "ElseNode", token |-> token, children |-> <<>>]

NoNewline(s) == \A i \in 1..Len(s) : s[i] # "\n"

\* regex_if / regex_elif: ^if\s+(.+)$ on a text that starts with the word kw.
\* The result is <<group 1>>, or <<>> when there is no match
regex_if_match(text, kw) ==
    LET after == SliceFrom(text, Len(kw))
        rest == lstrip(after)
    IN  IF /\ Slice(text, 0, Len(kw)) = kw
           /\ Len(rest) < Len(after)
           /\ rest # <<>>
           /\ NoNewline(rest)
        THEN <<rest>>
        ELSE <<>>

\* IfNode.__init__: "InvalidIf" stands for the TemplateError it raises
IfNode(token) ==
    LET m == regex_if_match(token.text,
                            IF keyword(token) = kw_if THEN kw_if ELSE kw_elif)
    IN  IF m = <<>> THEN [cls |-> "InvalidIf"]
        ELSE [cls |-> "IfNode", token |-> token, children |-> <<>>,
              arg_string |-> m[1], true_branch |-> Node, false_branch |-> Node]

\* text[e:] matches \s+in\s+(.+)$ : <<group 2>> or <<>>
regex_for_tail(text, e) ==
    LET r == lstrip(SliceFrom(text, e))
        r2 == SliceFrom(r, 2)
        b == lstrip(r2)
    IN  IF /\ e < Len(text)
           /\ text[e + 1] \in Whitespace
           /\ Slice(r, 0, 2) = kw_in
           /\ Len(b) < Len(r2)
           /\ b # <<>>
           /\ NoNewline(b)
        THEN <<b>>
        ELSE <<>>

\* regex_for: ^for\s+(.+)\s+in\s+(.+)$ with group 1 greedy: <<group 1,
\* group 2>> or <<>>
regex_for_match(text) ==
    LET after == SliceFrom(text, 3)
        p == Len(text) - Len(lstrip(after))
        ends == {e \in (p + 1)..Len(text) :
                    /\ NoNewline(Slice(text, p, e))
                    /\ regex_for_tail(text, e) # <<>>}
        e == CHOOSE x \in ends : \A y \in ends : y <= x
    IN  IF /\ Slice(text, 0, 3) = kw_for
           /\ p > 3
           /\ ends # {}
        THEN <<Slice(text, p, e), regex_for_tail(text, e)[1]>>
        ELSE <<>>

\* ForNode.__init__: "InvalidFor" stands for the TemplateError it raises
ForNode(token) ==
    LET m == regex_for_match(token.text)
    IN  IF m = <<>> THEN [cls |-> "InvalidFor"]
        ELSE [cls |-> "ForNode", token |-> token, children |-> <<>>,
              var_string |-> m[1], collection_string |-> m[2]]

\* Token.node_class applied to the token, for a start or mid word
node_class(token) ==
    CASE keyword(token) \in {kw_if, kw_elif} -> IfNode(token)
      [] keyword(token) = kw_else -> ElseNode(token)
      [] keyword(token) = kw_for -> ForNode(token)

AppendChild(node, child) ==
    [node EXCEPT !.children = Append(node.children, child)]

IsMarker(child, kw) ==
    child.token.type = "instruction" /\ keyword(child.token) = kw

\* the for loop of IfNode.process_children from the i-th child (1-based):
\* st is [true_branch, false_branch, on_false, elif_], on_false telling
\* which of the two nodes the name branch refers to
RECURSIVE FoldChildren(_, _, _)
FoldChildren(children, i, st) ==
    IF i > Len(children) THEN st
    ELSE
    LET child == children[i]
        add == IF st.on_false
               THEN [st EXCEPT !.false_branch = AppendChild(@, child)]
               ELSE [st EXCEPT !.true_branch = AppendChild(@, child)]
    IN  IF IsMarker(child, kw_elif)
        THEN IF ~st.elif_
             THEN FoldChildren(children, i + 1,
                      [st EXCEPT !.elif_ = TRUE, !.on_false = TRUE,
                                 !.false_branch = IfNode(child.token)])
             ELSE FoldChildren(children, i + 1, add)
        ELSE IF IsMarker(child, kw_else)
        THEN IF st.elif_
             THEN FoldChildren(children, i + 1, add)
             ELSE FoldChildren(children, i + 1, [st EXCEPT !.on_false = TRUE])
        ELSE FoldChildren(children, i + 1, add)

\* process_children: IfNode's when the node is one, Node's (pass) otherwise
RECURSIVE process_children(_)
process_children(node) ==
    IF node.cls # "IfNode" THEN node
    ELSE
    LET st == FoldChildren(node.children, 1,
                  [true_branch |-> node.true_branch,
                   false_branch |-> node.false_branch,
                   on_false |-> FALSE, elif_ |-> FALSE])
    IN  [node EXCEPT !.true_branch = st.true_branch,
                     !.false_branch = IF st.elif_
                                      THEN process_children(st.false_branch)
                                      ELSE st.false_branch]

(***************************************************************************)
(* Parser.parse: one iteration of its loop over the tokens                 *)
(***************************************************************************)
Top(stk) == stk[Len(stk)]

Pop(stk) == SubSeq(stk, 1, Len(stk) - 1)

\* stack[-1].children.append(node)
AppendToTop(stk, node) ==
    [stk EXCEPT ![Len(stk)] = AppendChild(@, node)]

\* the pop below with the finished block left on the stack
PopBlockKeepsBlock(stk, node) ==
    LET parent == stk[Len(stk) - 1]
    IN  Append(Append(SubSeq(stk, 1, Len(stk) - 2),
                      [parent EXCEPT !.children[Len(parent.children)] = node]),
               node)

\* stack.pop() of a finished block: the parent holds the same object as its
\* last child, so the parent's last child is the popped node
PopBlock(stk, node) ==
    LET parent == stk[Len(stk) - 1]
    IN  Append(SubSeq(stk, 1, Len(stk) - 2),
               [parent EXCEPT !.children[Len(parent.children)] = node])

ParseOk(stk, exp) == [stack |-> stk, expecting |-> exp, err |-> "ok"]

ParseErr(stk, exp, e) == [stack |-> stk, expecting |-> exp, err |-> e]

\* the body of the for loop of parse for one token
ParseToken(token, stk, exp) ==
    IF token.type = "text" THEN ParseOk(AppendToTop(stk, TextNode(token)), exp)
    ELSE IF token.type = "print"
    THEN ParseOk(AppendToTop(stk, PrintNode(token)), exp)
    ELSE IF ~HasKeyword(token) THEN ParseErr(stk, exp, "IndexError")
    ELSE IF keyword(token) \in startwords
    THEN LET node == node_class(token)
         IN  IF node.cls \in {"InvalidIf", "InvalidFor"}
             THEN ParseErr(stk, exp, node.cls)
             ELSE ParseOk(Append(AppendToTop(stk, node), node),
                          Append(exp, endword(token)))
    ELSE IF keyword(token) \in midwords
    THEN LET node == node_class(token)
         IN  IF node.cls = "InvalidIf" THEN ParseErr(stk, exp, node.cls)
             ELSE IF Len(exp) = 0
             THEN ParseErr(AppendToTop(stk, node), exp, "MissingIf")
             ELSE ParseOk(AppendToTop(stk, node), exp)
    ELSE IF keyword(token) \in endwords
    THEN IF Len(exp) = 0
         THEN ParseErr(stk, exp, IF keyword(token) = kw_endif
                                 THEN "MissingIf" ELSE "MissingFor")
         ELSE IF Top(exp) # keyword(token)
         THEN ParseErr(stk, exp, "MismatchedEnd")
         ELSE ParseOk(PopBlock(stk, process_children(Top(stk))), Pop(exp))
    ELSE ParseOk(stk, exp)

(***************************************************************************)
(* Values and dicts.  A value is a str, an int (one digit) or a list; a    *)
(* dict is the sequence of its items in insertion order.                   *)
(***************************************************************************)
StrV(s) == [t |-> "str", s |-> s]

IntV(n) == [t |-> "int", n |-> n]

ListV(items) == [t |-> "list", items |-> items]

Digits == <<"0", "1", "2", "3", "4", "5", "6", "7", "8", "9">>

IsDigit(c) == \E d \in 1..Len(Digits) : Digits[d] = c

DigitValue(c) == (CHOOSE d \in 1..Len(Digits) : Digits[d] = c) - 1

DictHas(d, k) == \E i \in 1..Len(d) : d[i].k = k

DictGet(d, k) == d[CHOOSE i \in 1..Len(d) : d[i].k = k].v

\* d[k] = v
DictSet(d, k, v) ==
    IF DictHas(d, k)
    THEN [i \in 1..Len(d) |-> IF d[i].k = k THEN [k |-> k, v |-> v] ELSE d[i]]
    ELSE Append(d, [k |-> k, v |-> v])

\* bool(v)
Truthy(v) ==
    CASE v.t = "str" -> v.s # <<>>
      [] v.t = "int" -> v.n # 0
      [] v.t = "list" -> v.items # <<>>

\* hasattr(v, '__iter__')
HasIter(v) == v.t \in {"str", "list"}

\* list(v) for an iterable v: a str iterates over its characters
IterItems(v) ==
    IF v.t = "list" THEN v.items
    ELSE [i \in 1..Len(v.s) |-> StrV(<<v.s[i]>>)]

\* ", ".join(parts)
RECURSIVE JoinComma(_)
JoinComma(parts) ==
    IF parts = <<>> THEN <<>>
    ELSE IF Len(parts) = 1 THEN parts[1]
    ELSE parts[1] \o <<",", " ">> \o JoinComma(Tail(parts))

\* repr(v): the strs of this model hold no quote and no escape
RECURSIVE Repr(_)
Repr(v) ==
    CASE v.t = "str" -> <<"'">> \o v.s \o <<"'">>
      [] v.t = "int" -> <<Digits[v.n + 1]>>
      [] v.t = "list" ->
            <<"[">> \o JoinComma([i \in 1..Len(v.items) |-> Repr(v.items[i])])
                    \o <<"]">>

\* str(d) for a dict
ReprDict(d) ==
    <<"{">> \o JoinComma([i \in 1..Len(d) |->
                 Repr(StrV(d[i].k)) \o <<":", " ">> \o Repr(d[i].v)])
            \o <<"}">>

IsIdentifier(s) ==
    /\ s # <<>>
    /\ \A i \in 1..Len(s) :
          s[i] \notin Whitespace \cup {"{", "}", "%", "#"} /\ ~IsDigit(s[i])

(***************************************************************************)
(* Context: scope is the list of dicts; aliased tells whether scope[0] is  *)
(* still the dict the caller passed to render                              *)
(***************************************************************************)
kw_self == <<"s", "e", "l", "f">>

kw_context == <<"c", "o", "n", "t", "e", "x", "t">>

kw_varstring == <<"v", "a", "r", "s", "t", "r", "i", "n", "g">>

\* Context.__init__: the scope list
NewContext(d) == IF d # <<>> THEN <<d>> ELSE << <<>> >>

\* Context.lookup: [value, scope], it never raises.  The inner eval sees
\* the names self and varstring; of the other texts of this model only a
\* digit evaluates
lookup(scope, varstring) ==
    IF scope # <<>> /\ DictHas(Top(scope), varstring)
    THEN [value |-> DictGet(Top(scope), varstring), scope |-> scope]
    ELSE IF varstring = kw_self
    THEN \* str(Context): __repr__ pops a scope when there is one
         IF scope # <<>>
         THEN [value |-> StrV(ReprDict(Top(scope))), scope |-> Pop(scope)]
         ELSE [value |-> StrV(<<>>), scope |-> scope]
    ELSE IF varstring = kw_varstring
    THEN [value |-> StrV(varstring), scope |-> scope]
    ELSE IF Len(varstring) = 1 /\ IsDigit(varstring[1])
    THEN [value |-> StrV(varstring), scope |-> scope]
    ELSE [value |-> StrV(<<>>), scope |-> scope]

\* eval(self.arg_string) in IfNode.render, after the names of the current
\* scope were added to the locals: "True", "False", or the error raised
EvalCond(scope, arg_string) ==
    IF scope = <<>> THEN "IndexError"
    ELSE IF Len(arg_string) = 1 /\ IsDigit(arg_string[1])
    THEN IF DigitValue(arg_string[1]) # 0 THEN "True" ELSE "False"
    ELSE IF DictHas(Top(scope), arg_string)
    THEN IF Truthy(DictGet(Top(scope), arg_string)) THEN "True" ELSE "False"
    ELSE IF arg_string \in {kw_self, kw_context} THEN "True"
    ELSE IF IsIdentifier(arg_string) THEN "NameError"
    ELSE "SyntaxError"

\* IfNode.render down to the branch it renders: the Node whose children are
\* rendered, or the error raised by a condition on the way
RECURSIVE IfSelect(_, _)
IfSelect(scope, node) ==
    LET c == EvalCond(scope, node.arg_string)
        branch == IF c = "True" THEN node.true_branch ELSE node.false_branch
    IN  IF c \notin {"True", "False"} THEN [cls |-> c]
        ELSE IF branch.cls = "IfNode" THEN IfSelect(scope, branch)
        ELSE branch

\* Template.render's post-processing of the text of the root
PostProcess(text) == replace_nlnl(strip(text))

(***************************************************************************)
(* The templates and data of the model                                     *)
(***************************************************************************)
MaxLen == 4

MaxSegs == 4

MaxElif == 2

MaxDepth == 2

MaxItems == 2

SeqsUpTo(S, n) == UNION {[1..k -> S] : k \in 0..n}

Instr(content) == <<"{", "%">> \o content \o <<"%", "}">>

PrintTag(content) == <<"{", "{">> \o content \o <<"}", "}">>

seg_if(c) == Instr(kw_if \o <<" ">> \o c)

seg_elif(c) == Instr(kw_elif \o <<" ">> \o c)

seg_else == Instr(kw_else)

seg_endif == Instr(kw_endif)

seg_for(v, c) == Instr(kw_for \o <<" ">> \o v \o <<" ">> \o kw_in \o <<" ">> \o c)

seg_endfor == Instr(kw_endfor)

name_b == <<"b">>

name_x == <<"x">>

name_y == <<"y">>

name_xs == <<"x", "s">>

name_n == <<"n">>

NoData == <<>>

DictOf(k, v) == <<[k |-> k, v |-> v]>>

\* every text of at most MaxLen characters over the characters of the tags
RawChars == {"{", "}", "%", "#", " ", "a"}

RawTemplates == SeqsUpTo(RawChars, MaxLen)

\* every sequence of at most MaxSegs delimiters and letters
DelimSegs == {all_tags[k] : k \in 1..Len(all_tags)} \cup {<<"a">>}

DelimTemplates == {join(ss) : ss \in SeqsUpTo(DelimSegs, MaxSegs)}

\* every sequence of at most MaxSegs comments, prints and texts that have
\* whitespace around their content
PairSegs == {<<"{", "#", " ", "a", " ", "#", "}">>,
             <<"{", "{", " ", "1", " ", "}", "}">>, <<" ", "a", " ">>}

PairTemplates == {join(ss) : ss \in SeqsUpTo(PairSegs, MaxSegs)}

\* every sequence of at most MaxSegs block instructions and texts
BlockSegs == {<<"A">>, seg_if(<<"1">>), seg_elif(<<"0">>), seg_else, seg_endif,
              seg_for(name_x, name_xs), seg_endfor}

BlockTemplates == {join(ss) : ss \in SeqsUpTo(BlockSegs, MaxSegs)}

\* one instruction that is none of the six forms of the tag syntax, or a
\* malformed header, among at most MaxSegs - 2 block instructions
OddSegs == {Instr(<<"f", "o", "o">>), Instr(<<>>), Instr(<<" ">>),
            Instr(kw_else \o <<" ", "z">>), Instr(kw_endif \o <<" ", "z">>),
            Instr(kw_endfor \o <<" ", "z">>), Instr(kw_if), Instr(kw_elif),
            Instr(kw_for \o <<" ">> \o name_x)}

OddTemplates ==
    {join(SubSeq(ss, 1, k)) \o odd \o join(SubSeq(ss, k + 1, Len(ss))) :
        <<ss, k, odd>> \in
            {t \in SeqsUpTo(BlockSegs, MaxSegs - 2) \X (0..MaxSegs) \X OddSegs :
                t[2] <= Len(t[1])}}

\* one if block that holds every sequence of at most MaxSegs texts, elifs and
\* elses, in any order
FoldSegs == {<<"A">>, <<"B">>, seg_else, seg_elif(<<"1">>)}

FoldTemplates ==
    {seg_if(<<"0">>) \o join(ss) \o seg_endif : ss \in SeqsUpTo(FoldSegs, MaxSegs)}

\* an instruction that the parser rejects where it stands, then a text, then
\* delimiters that are not adjacent matched pairs
GrammarErrors == {seg_endif, seg_endfor, seg_else, seg_elif(<<"1">>),
                  Instr(kw_if), Instr(kw_for \o <<" ">> \o name_x)}

Imbalances == {all_tags[k] : k \in 1..Len(all_tags)}
                  \cup {<<"{", "{", "%", "}">>, <<"{", "{", "{", "%">>}

MixedTemplates ==
    {g \o <<"A">> \o t : <<g, t>> \in GrammarErrors \X Imbalances}

\* An if block is described by its conditions (the if's, then the elifs'),
\* one body per condition and at most one else body; a body is a text or
\* another if block
BranchLetters == <<"A", "B", "C", "D", "E">>

TextShape(s) == [kind |-> "text", s |-> s]

ChainShape(conds, bodies, els) ==
    [kind |-> "chain", conds |-> conds, bodies |-> bodies, els |-> els]

\* the text of the i-th branch of a block at depth d; the else branch is Z
BranchText(i, d) == TextShape(<<BranchLetters[i], Digits[d + 1]>>)

ElseText(d) == TextShape(<<"Z", Digits[d + 1]>>)

PlainChains(conds, maxConds, d) ==
    {ChainShape(cs, [i \in 1..Len(cs) |-> BranchText(i, d)], els) :
        cs \in UNION {[1..k -> conds] : k \in 1..maxConds},
        els \in {<<>>, <<ElseText(d)>>}}

\* the block with its j-th body (the else body for j = Len(conds) + 1)
\* replaced by inner
WithBody(chain, j, inner) ==
    IF j <= Len(chain.conds)
    THEN [chain EXCEPT !.bodies[j] = inner]
    ELSE [chain EXCEPT !.els = <<inner>>]

NumBodies(chain) == Len(chain.conds) + Len(chain.els)

LiteralConds == {<<"1">>, <<"0">>}

\* the blocks that hold another block: an if, an optional elif, an else
OuterChains(d) == {c \in PlainChains(LiteralConds, 2, d) : c.els # <<>>}

\* the blocks nested to depth d; an innermost block may test the name b
RECURSIVE NestedChains(_)
NestedChains(d) ==
    IF d <= 1
    THEN PlainChains(LiteralConds, 2, 1) \cup PlainChains({name_b}, 1, 1)
    ELSE PlainChains(LiteralConds, 2, d) \cup
         {WithBody(c, j, inner) :
            <<c, j, inner>> \in
                {t \in OuterChains(d) \X (1..3) \X NestedChains(d - 1) :
                    t[2] <= NumBodies(t[1])}}

RECURSIVE Build(_)
RECURSIVE BuildElifs(_, _)
BuildElifs(chain, i) ==
    IF i > Len(chain.conds) THEN <<>>
    ELSE seg_elif(chain.conds[i]) \o Build(chain.bodies[i])
         \o BuildElifs(chain, i + 1)

\* the template text of a body
Build(shape) ==
    IF shape.kind = "text" THEN shape.s
    ELSE seg_if(shape.conds[1]) \o Build(shape.bodies[1])
         \o BuildElifs(shape, 2)
         \o (IF shape.els = <<>> THEN <<>>
             ELSE seg_else \o Build(shape.els[1]))
         \o seg_endif

\* the data of the if blocks: b unbound, falsy, truthy
ChainDatas == {NoData, DictOf(name_b, StrV(<<>>)), DictOf(name_b, StrV(<<"y">>))}

ChainInputs ==
    {[tpl |-> Build(c), data |-> d, shape |-> c] :
        c \in PlainChains(LiteralConds \cup {name_b}, MaxElif + 1, 1),
        d \in ChainDatas}
    \cup
    {[tpl |-> Build(c), data |-> NoData, shape |-> c] : c \in NestedChains(MaxDepth)}

\* A for block over one of a few collection expressions, with one of a few
\* bodies
ItemValues == {StrV(<<"p">>), StrV(<<"q">>), IntV(1)}

XsValues ==
    {ListV(items) : items \in SeqsUpTo(ItemValues, MaxItems)}
    \cup {IntV(5), StrV(<<"p", "q">>), ListV(<<StrV(<<"p">>), StrV(<<>>)>>)}

ForDatas == {NoData} \cup {DictOf(name_xs, v) : v \in XsValues}

CollExprs == {name_xs, name_n, kw_self, kw_varstring, <<"1">>}

ForBodies ==
    { <<>>,
      <<"A">>,
      PrintTag(name_x),
      <<"A">> \o PrintTag(name_x),
      PrintTag(kw_self) \o PrintTag(name_x),
      seg_if(name_x) \o <<"B">> \o seg_endif,
      seg_if(name_n) \o <<"B">> \o seg_endif,
      PrintTag(name_y) \o seg_for(name_y, name_x) \o PrintTag(name_y)
          \o seg_endfor,
      seg_for(name_y, name_x) \o PrintTag(kw_self) \o seg_endfor
          \o PrintTag(name_x),
      seg_else \o seg_elif(<<"1">>) \o <<"A">>,
      PrintTag(name_xs),
      PrintTag(kw_self) \o PrintTag(name_xs),
      seg_for(name_y, name_x) \o PrintTag(name_x) \o seg_endfor,
      seg_if(name_x) \o PrintTag(kw_self) \o seg_endif }

ForShape(coll, body) == [kind |-> "for", coll |-> coll, body |-> body]

ForInputs ==
    {[tpl |-> seg_for(name_x, c) \o b \o seg_endfor \o PrintTag(name_x),
      data |-> d, shape |-> ForShape(c, b)] :
        c \in CollExprs, b \in ForBodies, d \in ForDatas}

RawShape == [kind |-> "raw"]

RawInputs ==
    {[tpl |-> t, data |-> NoData, shape |-> RawShape] :
        t \in RawTemplates \cup DelimTemplates \cup PairTemplates
              \cup BlockTemplates \cup OddTemplates \cup MixedTemplates
              \cup FoldTemplates}

Inputs == RawInputs \cup ChainInputs \cup ForInputs

\* the data of a second render of the same template
ReDatas == {DictOf(name_b, StrV(<<"y">>)),
            DictOf(name_xs, ListV(<<StrV(<<"q">>)>>))}

(***************************************************************************)
(* The state: one Template(tpl) call, then render calls on the template    *)
(***************************************************************************)
VARIABLES
    tpl,        \* the template string
    shape,      \* how the template was put together (never read by the code)
    arg,        \* the data argument of the current render call
    data,       \* the caller's dict, as the current render call left it
    phase,      \* where the program is
    err,        \* "ok", or the exception that ended compile or render
    tags,       \* the result of find_all_tags
    tokens,     \* the result of tokenize
    pos,        \* the number of tokens parse has consumed
    stack,      \* parse's stack of open nodes
    expecting,  \* parse's stack of expected end words
    root_node,  \* Template.root_node
    fresh_root, \* root_node of a second Template(tpl), which is rendered once
    frames,     \* the render calls in progress, innermost last
    scope,      \* Context.scope
    aliased,    \* scope[0] is the caller's dict
    result,     \* the value of the last render call that returned
    results     \* the outcome of every finished render call, in order

vars == <<tpl, shape, arg, data, phase, err, tags, tokens, pos, stack,
          expecting, root_node, fresh_root, frames, scope, aliased, result, results>>

lexVars == <<tags, tokens>>

parseVars == <<pos, stack, expecting, root_node, fresh_root>>

renderVars == <<frames, scope, aliased, result, results, data, arg>>

Init ==
    /\ \E inp \in Inputs :
          /\ tpl = inp.tpl
          /\ shape = inp.shape
          /\ arg = inp.data
          /\ data = inp.data
    /\ phase = "new"
    /\ err = "ok"
    /\ tags = <<>>
    /\ tokens = <<>>
    /\ pos = 0
    /\ stack = <<>>
    /\ expecting = <<>>
    /\ root_node = Node
    /\ fresh_root = Node
    /\ frames = <<>>
    /\ scope = <<>>
    /\ aliased = FALSE
    /\ result = <<>>
    /\ results = <<>>

(***************************************************************************)
(* Template.__init__: Parser(tpl).parse()                                  *)
(***************************************************************************)
\* the action below with the outcome of the validation loop ignored
FindAllTagsSkipsCheck ==
    /\ phase = "new"
    /\ \E r \in {find_all_tags(tpl)} :
           /\ tags' = r.tags
           /\ err' = "ok"
           /\ phase' = "scanned"
    /\ UNCHANGED <<tpl, shape, tokens>>
    /\ UNCHANGED parseVars
    /\ UNCHANGED renderVars

\* Lexer.find_all_tags, called first by tokenize
FindAllTags ==
    /\ phase = "new"
    /\ \E r \in {find_all_tags(tpl)} :
           /\ tags' = r.tags
           /\ err' = r.err
           /\ phase' = IF r.err = "ok" THEN "scanned" ELSE "compile_failed"
    /\ UNCHANGED <<tpl, shape, tokens>>
    /\ UNCHANGED parseVars
    /\ UNCHANGED renderVars

\* the rest of Lexer.tokenize; parse then starts with its stack [Node()]
Tokenize ==
    /\ phase = "scanned"
    /\ tokens' = tokenize(tpl, tags)
    /\ stack' = <<Node>>
    /\ expecting' = <<>>
    /\ pos' = 0
    /\ phase' = "parsing"
    /\ UNCHANGED <<tpl, shape, err, tags, root_node, fresh_root>>
    /\ UNCHANGED renderVars

\* one iteration of the for loop of parse
ParseStep ==
    /\ phase = "parsing"
    /\ pos < Len(tokens)
    /\ \E r \in {ParseToken(tokens[pos + 1], stack, expecting)} :
           /\ stack' = r.stack
           /\ expecting' = r.expecting
           /\ err' = r.err
           /\ phase' = IF r.err = "ok" THEN "parsing" ELSE "compile_failed"
    /\ pos' = pos + 1
    /\ UNCHANGED <<tpl, shape, root_node, fresh_root>>
    /\ UNCHANGED lexVars
    /\ UNCHANGED renderVars

\* the end of parse below without its check of expecting
ParseEndKeepsOpenBlocks ==
    /\ phase = "parsing"
    /\ pos = Len(tokens)
    /\ err' = "ok"
    /\ phase' = "compiled"
    /\ root_node' = stack[1]
    /\ fresh_root' = stack[1]
    /\ stack' = Pop(stack)
    /\ UNCHANGED <<tpl, shape, pos, expecting>>
    /\ UNCHANGED lexVars
    /\ UNCHANGED renderVars

\* after the loop: the check of expecting, and return stack.pop()
ParseEnd ==
    /\ phase = "parsing"
    /\ pos = Len(tokens)
    /\ IF expecting # <<>>
       THEN /\ err' = "UnterminatedBlock"
            /\ phase' = "compile_failed"
            /\ UNCHANGED <<stack, root_node, fresh_root>>
       ELSE /\ err' = "ok"
            /\ phase' = "compiled"
            /\ root_node' = Top(stack)
            /\ fresh_root' = Top(stack)
            /\ stack' = Pop(stack)
    /\ UNCHANGED <<tpl, shape, pos, expecting>>
    /\ UNCHANGED lexVars
    /\ UNCHANGED renderVars

(***************************************************************************)
(* Template.render: root_node.render(Context(data)), then the              *)
(* post-processing.  A frame is one call in progress: the join of          *)
(* Node.render / of one iteration of ForNode.render, or the loop of        *)
(* ForNode.render.                                                         *)
(***************************************************************************)
JoinFrame(nodes) ==
    [kind |-> "join", nodes |-> nodes, i |-> 1, parts |-> <<>>]

ForFrame(node, items) ==
    [kind |-> "for", node |-> node, items |-> items, output |-> <<>>]

\* the innermost call in progress receives the value v of the call it made
Receive(frs, v) ==
    IF Top(frs).kind = "join"
    THEN [frs EXCEPT ![Len(frs)] =
             [@ EXCEPT !.parts = Append(@, v), !.i = @ + 1]]
    ELSE [frs EXCEPT ![Len(frs)] = [@ EXCEPT !.output = Append(@, v.s)]]

Outcome(d, out, e) == [data |-> d, out |-> out, err |-> e]

\* a call returns v to the calls frs below it; the root's value goes through
\* Template.render's strip and replace and is returned to the caller
Return(frs, v) ==
    IF frs = <<>>
    THEN /\ frames' = <<>>
         /\ result' = PostProcess(v.s)
         /\ results' = Append(results, Outcome(arg, PostProcess(v.s), "ok"))
         /\ phase' = "done"
         /\ err' = "ok"
    ELSE /\ frames' = Receive(frs, v)
         /\ UNCHANGED <<result, results, phase, err>>

\* an exception leaves render
Raise(e) ==
    /\ frames' = <<>>
    /\ results' = Append(results, Outcome(arg, <<>>, e))
    /\ phase' = "render_failed"
    /\ err' = e
    /\ UNCHANGED result

SetScope(sc) ==
    /\ scope' = sc
    /\ aliased' = (aliased /\ sc # <<>>)

Child == Top(frames).nodes[Top(frames).i]

AtChild(cls) ==
    /\ phase = "rendering"
    /\ Top(frames).kind = "join"
    /\ Top(frames).i <= Len(Top(frames).nodes)
    /\ Child.cls \in cls

compileVars == <<tpl, shape, tags, tokens, pos, stack, expecting, root_node,
                 fresh_root>>

\* a render call starts on the tree root with the data d
StartRender(root, d) ==
    /\ arg' = d
    /\ data' = d
    /\ scope' = NewContext(d)
    /\ aliased' = (d # <<>>)
    /\ frames' = <<JoinFrame(root.children)>>
    /\ phase' = "rendering"
    /\ UNCHANGED <<err, result, results>>
    /\ UNCHANGED compileVars

\* the first render call on the template
Render ==
    /\ phase = "compiled"
    /\ StartRender(root_node, arg)

RenderDone == phase \in {"done", "render_failed"}

\* the second render call below, were the Context of the first call kept
\* while it holds a scope
RenderAgainKeepsContext ==
    /\ RenderDone
    /\ Len(results) = 1
    /\ \E d \in ReDatas :
          /\ arg' = d
          /\ data' = d
          /\ scope' = IF scope # <<>> THEN scope ELSE NewContext(d)
          /\ aliased' = (d # <<>>)
          /\ frames' = <<JoinFrame(root_node.children)>>
          /\ phase' = "rendering"
          /\ UNCHANGED <<err, result, results>>
          /\ UNCHANGED compileVars

\* a second render call on the same template, with other data
RenderAgain ==
    /\ RenderDone
    /\ Len(results) = 1
    /\ \E d \in ReDatas : StartRender(root_node, d)

\* the render call on the second Template(tpl), with the data of the second
\* call on the first
RenderFresh ==
    /\ RenderDone
    /\ Len(results) = 2
    /\ StartRender(fresh_root, arg)

\* TextNode.render
RenderText ==
    /\ AtChild({"TextNode"})
    /\ Return(frames, StrV(Child.token.text))
    /\ UNCHANGED <<scope, aliased, data, arg>>
    /\ UNCHANGED compileVars

\* PrintNode.render
RenderPrint ==
    /\ AtChild({"PrintNode"})
    /\ LET r == lookup(scope, Child.token.text)
       IN  /\ SetScope(r.scope)
           /\ Return(frames, r.value)
    /\ UNCHANGED <<data, arg>>
    /\ UNCHANGED compileVars

\* Node.render of a child that is a plain Node or an ElseNode
RenderNode ==
    /\ AtChild({"Node", "ElseNode"})
    /\ frames' = Append(frames, JoinFrame(Child.children))
    /\ UNCHANGED <<scope, aliased, data, arg, result, results, phase, err>>
    /\ UNCHANGED compileVars

\* IfNode.render, down to the call of the render of the branch it selects
RenderIf ==
    /\ AtChild({"IfNode"})
    /\ LET branch == IfSelect(scope, Child)
       IN  IF branch.cls = "Node"
           THEN /\ frames' = Append(frames, JoinFrame(branch.children))
                /\ UNCHANGED <<result, results, phase, err>>
           ELSE Raise(branch.cls)
    /\ UNCHANGED <<scope, aliased, data, arg>>
    /\ UNCHANGED compileVars

\* ForNode.render up to the loop: the lookup of the collection and the push
RenderFor ==
    /\ AtChild({"ForNode"})
    /\ LET r == lookup(scope, Child.collection_string)
       IN  IF HasIter(r.value)
           THEN /\ scope' = Append(r.scope, <<>>)
                /\ aliased' = (aliased /\ r.scope # <<>>)
                /\ frames' = Append(frames, ForFrame(Child, IterItems(r.value)))
                /\ UNCHANGED <<result, results, phase, err>>
           ELSE /\ SetScope(r.scope)
                /\ Return(frames, StrV(<<>>))
    /\ UNCHANGED <<data, arg>>
    /\ UNCHANGED compileVars

\* one iteration of the loop of ForNode.render, up to the join of the body:
\* context[self.var_string] = item
ForIter ==
    /\ phase = "rendering"
    /\ Top(frames).kind = "for"
    /\ Top(frames).items # <<>>
    /\ LET f == Top(frames)
           item == Head(f.items)
       IN  IF scope = <<>>
           THEN /\ Raise("IndexError")
                /\ UNCHANGED <<scope, aliased, data>>
           ELSE /\ scope' = [scope EXCEPT ![Len(scope)] =
                                 DictSet(@, f.node.var_string, item)]
                /\ data' = IF aliased /\ Len(scope) = 1
                           THEN DictSet(data, f.node.var_string, item)
                           ELSE data
                /\ frames' = Append(
                       [frames EXCEPT ![Len(frames)].items = Tail(f.items)],
                       JoinFrame(f.node.children))
                /\ UNCHANGED <<aliased, result, results, phase, err>>
    /\ UNCHANGED arg
    /\ UNCHANGED compileVars

\* after the loop of ForNode.render: context.pop() and the join of output
ForExit ==
    /\ phase = "rendering"
    /\ Top(frames).kind = "for"
    /\ Top(frames).items = <<>>
    /\ IF scope = <<>>
       THEN /\ Raise("IndexError")
            /\ UNCHANGED <<scope, aliased>>
       ELSE /\ SetScope(Pop(scope))
            /\ Return(Pop(frames), StrV(join(Top(frames).output)))
    /\ UNCHANGED <<data, arg>>
    /\ UNCHANGED compileVars

\* "".join(...) of a Node.render or of one iteration, once every child has
\* been rendered: TypeError unless every part is a str
JoinReturn ==
    /\ phase = "rendering"
    /\ Top(frames).kind = "join"
    /\ Top(frames).i > Len(Top(frames).nodes)
    /\ LET parts == Top(frames).parts
       IN  IF \A k \in 1..Len(parts) : parts[k].t = "str"
           THEN Return(Pop(frames),
                       StrV(join([k \in 1..Len(parts) |-> parts[k].s])))
           ELSE Raise("TypeError")
    /\ UNCHANGED <<scope, aliased, data, arg>>
    /\ UNCHANGED compileVars

Next ==
    \/ FindAllTags
    \/ Tokenize
    \/ ParseStep
    \/ ParseEnd
    \/ Render
    \/ RenderAgain
    \/ RenderFresh
    \/ RenderText
    \/ RenderPrint
    \/ RenderNode
    \/ RenderIf
    \/ RenderFor
    \/ ForIter
    \/ ForExit
    \/ JoinReturn

Spec == Init /\ [][Next]_vars

(***************************************************************************)
(* Properties                                                              *)
(***************************************************************************)
TagErrors == {"ConsecutiveOpeningTag", "UnterminatedOpeningTag",
              "UnmatchedClosingTag", "MismatchedClosingTag"}

NestErrors == {"MissingIf", "MissingFor", "MismatchedEnd", "UnterminatedBlock"}

\* the scan has just ended
ScanDone == phase \in {"scanned", "compile_failed"}

ScanRejected == phase = "compile_failed" /\ err \in TagErrors

\* parse has just ended
ParseDone == phase \in {"compiled", "compile_failed"} /\ ~ScanRejected

Compiled == phase = "compiled"

\* C1: every render call on a compiled template returns a string: no render
\* call ends with an error raised to the caller.
C1_RenderNeverFails == phase # "render_failed"

\* The delimiters of a text in text order: the occurrences of each of the six
\* two-character delimiters, those of one delimiter counted left to right
\* without overlap
RECURSIVE Counted(_, _, _)
Counted(s, tag, i) ==
    /\ i >= 0
    /\ Slice(s, i, i + 2) = tag
    /\ ~Counted(s, tag, i - 1)

RECURSIVE DelimitersFrom(_, _)
DelimitersFrom(s, i) ==
    IF i + 2 > Len(s) THEN <<>>
    ELSE (IF \E k \in 1..Len(all_tags) : Counted(s, all_tags[k], i)
          THEN <<Slice(s, i, i + 2)>> ELSE <<>>) \o DelimitersFrom(s, i + 1)

Delimiters(s) == DelimitersFrom(s, 0)

\* a sequence of adjacent matched pairs: an opener, then its own closer,
\* and so on, with nothing left open at the end
AdjacentPairs(ds) ==
    /\ Len(ds) % 2 = 0
    /\ \A k \in 1..Len(ds) :
          IF k % 2 = 1 THEN ds[k] \in OpeningTags
          ELSE ds[k] = tag_pairs(ds[k - 1])

\* C2: the tag scan accepts a template exactly when its delimiters, in text
\* order, form a sequence of adjacent matched pairs; every other template
\* fails to compile with a tag-level error.
C2_ScanAcceptsAdjacentPairs ==
    ScanDone => (~ScanRejected <=> AdjacentPairs(Delimiters(tpl)))

\* the scan accepted a template of at least two pairs
C2_Witness == ~ScanRejected /\ phase = "scanned" /\ Len(Delimiters(tpl)) >= 4

\* s.split()
RECURSIVE Words(_)
Words(s) ==
    LET t == lstrip(s)
    IN  IF t = <<>> THEN <<>>
        ELSE <<FirstWord(t)>> \o Words(SubSeq(t, Len(FirstWord(t)) + 1, Len(t)))

IsInstruction(token) == token.type = "instruction"

\* the words of each instruction token, in token order
Instructions ==
    LET ins == SelectSeq(tokens, IsInstruction)
    IN  [i \in 1..Len(ins) |-> Words(ins[i].text)]

LeadingWord(ws) == IF ws = <<>> THEN <<>> ELSE ws[1]

\* The nesting of a sequence of instructions, read off their leading words
\* with the list of the blocks that are open: "ok", or the first defect.  An
\* elif or else with no open block is reported by the parser with the
\* message of a missing if.
RECURSIVE Nesting(_, _)
Nesting(ins, open) ==
    IF ins = <<>>
    THEN IF open = <<>> THEN "ok" ELSE "UnterminatedBlock"
    ELSE LET kw == LeadingWord(Head(ins))
         IN  IF kw \in {kw_if, kw_for}
             THEN Nesting(Tail(ins), Append(open, kw))
             ELSE IF kw \in {kw_elif, kw_else}
             THEN IF open = <<>> THEN "MissingIf"
                  ELSE Nesting(Tail(ins), open)
             ELSE IF kw = kw_endif
             THEN IF open = <<>> THEN "MissingIf"
                  ELSE IF Top(open) # kw_if THEN "MismatchedEnd"
                  ELSE Nesting(Tail(ins), Pop(open))
             ELSE IF kw = kw_endfor
             THEN IF open = <<>> THEN "MissingFor"
                  ELSE IF Top(open) # kw_for THEN "MismatchedEnd"
                  ELSE Nesting(Tail(ins), Pop(open))
             ELSE Nesting(Tail(ins), open)

\* the header grammar of the tag syntax: if <expr>, elif <expr>,
\* for <name> in <expr>
WellFormedHeader(ws) ==
    IF LeadingWord(ws) \in {kw_if, kw_elif} THEN Len(ws) >= 2
    ELSE IF LeadingWord(ws) = kw_for THEN Len(ws) >= 4 /\ ws[3] = kw_in
    ELSE TRUE

HeadersWellFormed(kws) ==
    \A i \in 1..Len(Instructions) :
        LeadingWord(Instructions[i]) \in kws => WellFormedHeader(Instructions[i])

NoEmptyInstruction == \A i \in 1..Len(Instructions) : Instructions[i] # <<>>

\* what the C3 statements share: a template is accepted only when its
\* instructions are well nested, and a parse that fails with a nesting error
\* fails with the error of the first nesting defect
NestingChecked ==
    /\ Compiled => Nesting(Instructions, <<>>) = "ok"
    /\ (phase = "compile_failed" /\ err \in NestErrors)
          => Nesting(Instructions, <<>>) = err

FirstRenderDone == RenderDone /\ Len(results) = 1

\* the truth of a condition by the resolution order of the evaluator: a name
\* bound in the scope, else a literal, else absent and false
CondTruthy(c, d) ==
    IF DictHas(d, c) THEN Truthy(DictGet(d, c))
    ELSE Len(c) = 1 /\ IsDigit(c[1]) /\ DigitValue(c[1]) # 0

\* the text an if block is to render: the body of its first branch with a
\* truthy condition, else its else body, else nothing
RECURSIVE Selected(_, _)
Selected(sh, d) ==
    IF sh.kind = "text" THEN sh.s
    ELSE LET hits == {i \in 1..Len(sh.conds) : CondTruthy(sh.conds[i], d)}
         IN  IF hits # {}
             THEN Selected(sh.bodies[CHOOSE i \in hits : \A j \in hits : i <= j], d)
             ELSE IF sh.els # <<>> THEN Selected(sh.els[1], d)
             ELSE <<>>

\* an if block with no block in its branches
IsPlain(sh) ==
    /\ \A i \in 1..Len(sh.bodies) : sh.bodies[i].kind = "text"
    /\ \A i \in 1..Len(sh.els) : sh.els[i].kind = "text"

\* C4: an if / elif ... / optional else / endif block renders exactly the
\* body of its first branch with a truthy condition, or its else body (the
\* empty string without an else) when no condition is truthy.
C4_FirstTruthyBranch ==
    (FirstRenderDone /\ shape.kind = "chain" /\ IsPlain(shape))
        => results[1] = Outcome(arg, Selected(shape, arg), "ok")

\* str(v) of an item
ItemText(v) == IF v.t = "str" THEN v.s ELSE Repr(v)

\* the bodies of a for block that hold only a text and a print of the loop
\* variable, and what one rendering of such a body is to give for an item
TextBody == <<"A">>

SimpleBodies == {<<>>, TextBody, PrintTag(name_x), TextBody \o PrintTag(name_x)}

BodyText(body, item) ==
    IF body = <<>> THEN <<>>
    ELSE IF body = TextBody THEN TextBody
    ELSE IF body = PrintTag(name_x) THEN ItemText(item)
    ELSE TextBody \o ItemText(item)

\* the for block of the template is over a name bound to a list
OverList(d) ==
    /\ shape.kind = "for"
    /\ shape.coll = name_xs
    /\ DictHas(d, name_xs)
    /\ DictGet(d, name_xs).t = "list"

\* C5: a for block over a sequence of n elements renders its body n times,
\* in order, the i-th time with the loop variable bound to the i-th element,
\* and gives the concatenation of these renderings; the loop variable is
\* not bound after the block.
C5_BodyPerElement ==
    (FirstRenderDone /\ OverList(arg) /\ shape.body \in SimpleBodies)
        => LET items == DictGet(arg, name_xs).items
           IN  results[1] =
                   Outcome(arg,
                           join([i \in 1..Len(items) |->
                                    BodyText(shape.body, items[i])]),
                           "ok")

\* C6: a template with no tags renders to its text with the leading and
\* trailing whitespace trimmed, at every render call on it.
C6_NoTagsTrimmedText ==
    (RenderDone /\ shape.kind = "raw" /\ Delimiters(tpl) = <<>>)
        => \A k \in 1..Len(results) :
               results[k].err = "ok" /\ results[k].out = strip(tpl)

ValidInstruction(ws) ==
    \/ LeadingWord(ws) \in {kw_if, kw_elif, kw_for} /\ WellFormedHeader(ws)
    \/ ws \in {<<kw_else>>, <<kw_endif>>, <<kw_endfor>>}

SyntaxErrors == TagErrors \cup NestErrors \cup {"InvalidIf", "InvalidFor"}

\* C8: a template that has an instruction which is none of the six forms is
\* not accepted, and a compile that fails fails with a syntax error of one of
\* the listed kinds.
C8_MalformedRejected ==
    /\ Compiled => \A i \in 1..Len(Instructions) : ValidInstruction(Instructions[i])
    /\ phase = "compile_failed" => err \in SyntaxErrors

\* C9: an if block nested in a branch of another if block renders to the
\* selected branch of the inner block inside the selected branch of the outer
\* block, each block selecting among its own branches only.
C9_NestedBlocksIndependent ==
    (FirstRenderDone /\ shape.kind = "chain" /\ ~IsPlain(shape))
        => results[1] = Outcome(arg, Selected(shape, arg), "ok")

\* the collection expression is unbound in the data, or bound to an empty
\* collection or to a value that is not iterable
NothingToIterate(coll, d) ==
    \/ ~DictHas(d, coll)
    \/ /\ DictHas(d, coll)
       /\ \/ ~HasIter(DictGet(d, coll))
          \/ IterItems(DictGet(d, coll)) = <<>>

\* C10: a for block whose collection expression is unbound, bound to an
\* empty collection or bound to a non-iterable value renders as the empty
\* string, with no error.
C10_NothingToIterate ==
    (FirstRenderDone /\ shape.kind = "for" /\ NothingToIterate(shape.coll, arg))
        => results[1] = Outcome(arg, <<>>, "ok")

\* the frame of a for body in progress: the join of one iteration, right
\* above the loop of its for block
IsBodyFrame(j) ==
    /\ j >= 2
    /\ frames[j].kind = "join"
    /\ frames[j - 1].kind = "for"

\* a print of a plain name: not one of the names the evaluator itself knows
PrintsName(node) ==
    /\ node.cls = "PrintNode"
    /\ IsIdentifier(node.token.text)
    /\ node.token.text \notin {kw_self, kw_varstring}

\* C11: while a for body is rendered, a print of a name that the innermost
\* loop does not bind gives the empty string, also when the name is bound
\* in the initial data or by an enclosing loop.
C11_TopScopeOnly ==
    phase = "rendering" =>
        \A j \in 1..Len(frames) :
            IsBodyFrame(j) =>
                \A k \in 1..Len(frames[j].parts) :
                    (/\ PrintsName(frames[j].nodes[k])
                     /\ frames[j].nodes[k].token.text # frames[j - 1].node.var_string)
                        => frames[j].parts[k] = StrV(<<>>)

\* C12: when a render call has returned, the data mapping of the caller has
\* the keys and values it had when the call began.
C12_DataUnchanged == phase = "done" => data = arg

\* the indices (0-based) of the delimiters of a text, in text order
RECURSIVE DelimiterIndicesFrom(_, _)
DelimiterIndicesFrom(s, i) ==
    IF i + 2 > Len(s) THEN <<>>
    ELSE (IF \E k \in 1..Len(all_tags) : Counted(s, all_tags[k], i)
          THEN <<i>> ELSE <<>>) \o DelimiterIndicesFrom(s, i + 1)

DelimiterIndices(s) == DelimiterIndicesFrom(s, 0)

\* The text runs of a text whose delimiters are adjacent pairs: the run
\* before the first pair, the runs between two pairs, the run after the last
\* pair.  A run is [text, before]: before tells that an opening tag follows.
TextRuns(s) ==
    LET ix == DelimiterIndices(s)
        n == Len(ix) \div 2
    IN  IF n = 0 THEN <<>>
        ELSE [k \in 1..(n + 1) |->
                 IF k = 1 THEN [text |-> Slice(s, 0, ix[1]), before |-> TRUE]
                 ELSE IF k <= n
                 THEN [text |-> Slice(s, ix[2 * k - 2] + 2, ix[2 * k - 1]),
                       before |-> TRUE]
                 ELSE [text |-> SliceFrom(s, ix[2 * n] + 2), before |-> FALSE]]

IsText(token) == token.type = "text"

NonEmptyText(t) == t # <<>>

\* the texts of the text tokens, in token order
TextsOf(toks) ==
    LET tt == SelectSeq(toks, IsText)
    IN  [i \in 1..Len(tt) |-> tt[i].text]

\* the tokenizer has just returned
TokenizeDone == phase = "parsing" /\ pos = 0

\* C13: the text tokens are the non-empty text runs in text order, a run
\* that precedes an opening tag (the run before the first tag too) without
\* its trailing whitespace, the run after the last tag verbatim.
C13_TextRunsTrimmed ==
    TokenizeDone =>
        LET runs == TextRuns(tpl)
        IN  TextsOf(tokens) =
                SelectSeq([k \in 1..Len(runs) |->
                              IF runs[k].before THEN rstrip(runs[k].text)
                              ELSE runs[k].text],
                          NonEmptyText)

IsTagToken(token) == token.type # "text"

\* the k-th matched pair of a text whose delimiters are adjacent pairs: its
\* opening delimiter and the content strictly between its two delimiters
PairsOf(s) ==
    LET ix == DelimiterIndices(s)
    IN  [k \in 1..(Len(ix) \div 2) |->
            [open |-> Slice(s, ix[2 * k - 1], ix[2 * k - 1] + 2),
             content |-> Slice(s, ix[2 * k - 1] + 2, ix[2 * k])]]

IsNotComment(pair) == tag_types(pair.open) # "comment"

\* C14: the print and instruction tokens are, in text order, one per matched
\* pair that is not a comment, typed after the pair's delimiters and holding
\* the pair's content without its leading and trailing whitespace; a comment
\* pair has no token.
C14_OneTokenPerPair ==
    TokenizeDone =>
        LET pairs == SelectSeq(PairsOf(tpl), IsNotComment)
        IN  SelectSeq(tokens, IsTagToken) =
                [k \in 1..Len(pairs) |->
                    Token(tag_types(pairs[k].open), strip(pairs[k].content))]

\* a text with a comment pair and a pair whose content has whitespace to
\* trim has been tokenized
C14_Witness ==
    /\ TokenizeDone
    /\ \E k \in 1..Len(PairsOf(tpl)) : ~IsNotComment(PairsOf(tpl)[k])
    /\ \E k \in 1..Len(PairsOf(tpl)) :
          /\ IsNotComment(PairsOf(tpl)[k])
          /\ strip(PairsOf(tpl)[k].content) # PairsOf(tpl)[k].content

\* the for blocks whose rendering is in progress
OpenLoops == {j \in 1..Len(frames) : frames[j].kind = "for"}

\* C15: during a render the scope stack is never empty, and it holds the
\* scope of the data plus one scope per for block in progress, so that a
\* for block that finishes leaves the depth it found.
C15_ScopesPaired ==
    phase = "rendering" =>
        /\ Len(scope) >= 1
        /\ Len(scope) = 1 + Cardinality(OpenLoops)

\* C16: a render that fails leaves no scope of a for block on the stack: the
\* stack is no deeper than the one scope a render starts with.
C16_FailurePopsScope == phase = "render_failed" => Len(scope) <= 1

\* the nodes a render of node visits next: the two branches of an IfNode,
\* the children of any other node
Rendered(node) ==
    IF node.cls = "IfNode" THEN <<node.true_branch, node.false_branch>>
    ELSE node.children

\* an ElseNode is node or is below it in the tree that is rendered
RECURSIVE HasElseNode(_)
HasElseNode(node) ==
    \/ node.cls = "ElseNode"
    \/ \E k \in 1..Len(Rendered(node)) : HasElseNode(Rendered(node)[k])

\* C17: after a successful compile no ElseNode is in the tree that is
\* rendered: not among the children of the root or of a for block, not in a
\* branch of an if block.
C17_NoElseNode == Compiled => ~HasElseNode(root_node)

\* C18: nothing is tokenized or parsed before the tag scan has accepted the
\* whole text, and a compile of a text whose delimiters are not adjacent
\* matched pairs fails with a tag-level error, whatever instruction comes
\* before the imbalance; it leaves no token and no tree.
C18_ScanBeforeParse ==
    /\ (phase = "new" \/ ScanRejected) =>
          /\ tokens = <<>>
          /\ stack = <<>>
          /\ pos = 0
          /\ root_node = Node
    /\ (phase = "compile_failed" /\ ~AdjacentPairs(Delimiters(tpl))) =>
          err \in TagErrors

\* the compile of a text that starts with an instruction the parser would
\* reject and has a tag imbalance after it has failed in the scan
C18_Witness ==
    /\ ScanRejected
    /\ \E g \in GrammarErrors : Slice(tpl, 0, Len(g)) = g

\* the closing keyword of a block node
ClosingOf(node) == IF node.cls = "IfNode" THEN kw_endif ELSE kw_endfor

\* C19: while parse runs, before the first token and after every token, the
\* stack of open blocks has one entry more than the stack of expected
\* closing keywords, its bottom entry is the root, and the i-th expected
\* keyword closes the block at position i + 1; after a successful parse no
\* keyword is expected, the one entry left has been popped and the node
\* returned is the root.
C19_ParserStacks ==
    /\ phase = "parsing" =>
          /\ Len(stack) = Len(expecting) + 1
          /\ stack[1].cls = "Node"
          /\ \A i \in 1..Len(expecting) :
                /\ i + 1 <= Len(stack)
                /\ stack[i + 1].cls \in {"IfNode", "ForNode"}
                /\ expecting[i] = ClosingOf(stack[i + 1])
    /\ phase = "compiled" =>
          /\ expecting = <<>>
          /\ stack = <<>>
          /\ root_node.cls = "Node"

\* parse is inside two open blocks of different kinds, after a block has
\* been closed
C19_Witness ==
    /\ phase = "parsing"
    /\ Len(expecting) = 2
    /\ expecting[1] # expecting[2]
    /\ stack[1].children # <<>>
    /\ Len(stack[2].children) >= 2

\* a child that is not an else or elif marker
NotMarker(child) ==
    ~(\/ child.cls = "ElseNode"
      \/ child.cls = "IfNode" /\ keyword(child.token) = kw_elif)

\* the children held by the branches of the chain of an IfNode, in the
\* order of the chain
RECURSIVE BranchContent(_)
BranchContent(node) ==
    node.true_branch.children \o
        (IF node.false_branch.cls = "IfNode"
         THEN BranchContent(node.false_branch)
         ELSE node.false_branch.children)

\* every if block at or below node holds its non-marker children in the
\* branches of its chain
RECURSIVE FoldKeepsAll(_)
FoldKeepsAll(node) ==
    /\ (node.cls = "IfNode" /\ keyword(node.token) = kw_if) =>
           BranchContent(node) = SelectSeq(node.children, NotMarker)
    /\ \A k \in 1..Len(node.children) : FoldKeepsAll(node.children[k])

\* C20: after a successful compile every non-marker child of an if block is
\* in exactly one branch of the block's chain, in its original order,
\* whatever the order of the elif and else markers of the block.
C20_FoldLosesNothing == Compiled => FoldKeepsAll(root_node)

====
